---- MODULE Spec2Model ----
(***************************************************************************)
(* The Potjans-Diesmann microcircuit builder of pynest/examples/           *)
(* Potjans_2014: the Network class (network.py) and the matrix builders of *)
(* network_params.py, driven against an abstract NEST backend that records *)
(* every Create and Connect request it receives.                           *)
(*                                                                         *)
(* Numbers the code keeps in floating point are exact rationals here,      *)
(* records [n |-> numerator, d |-> denominator] with d > 0.  Python lists  *)
(* and numpy arrays are functions over 0 .. len-1, as in the source.       *)
(***************************************************************************)
EXTENDS Integers, Sequences, FiniteSets, TLC

(***************************************************************************)
(* Bounds of the model.                                                    *)
(***************************************************************************)
MaxPops == 3
MaxThreads == 2
MaxSeeds == 4
MaxSetups == 2
MaxDim == 5

(***************************************************************************)
(* Rational arithmetic.                                                    *)
(***************************************************************************)
Rat(n, d) == [n |-> n, d |-> d]
RInt(k) == Rat(k, 1)
RMul(a, b) == Rat(a.n * b.n, a.d * b.d)
RDivPos(a, b) == Rat(a.n * b.d, a.d * b.n)
RAbs(a) == Rat(IF a.n < 0 THEN 0 - a.n ELSE a.n, a.d)
RLess(a, b) == a.n * b.d < b.n * a.d
RZero == Rat(0, 1)
ROne == Rat(1, 1)

\* numpy's ndarray.astype(int) on a float: truncation toward zero
AsTypeInt(a) == IF a.n >= 0 THEN a.n \div a.d ELSE 0 - ((0 - a.n) \div a.d)

Range0(n) == 0 .. (n - 1)
Undefined == <<>>

(***************************************************************************)
(* network_params.py: the matrix builders.  A slice [:, 0:dim:2] selects   *)
(* the even source columns, [:, 1:dim:2] the odd ones.                     *)
(***************************************************************************)
get_mean_delays(mean_delay_exc, mean_delay_inh, number_of_pop) ==
    [i \in Range0(number_of_pop) |->
        [j \in Range0(number_of_pop) |->
            IF j % 2 = 0 THEN mean_delay_exc ELSE mean_delay_inh]]

get_std_delays(std_delay_exc, std_delay_inh, number_of_pop) ==
    [i \in Range0(number_of_pop) |->
        [j \in Range0(number_of_pop) |->
            IF j % 2 = 0 THEN std_delay_exc ELSE std_delay_inh]]

\* weights[0, 2] = exc * 2 indexes column 2: numpy raises IndexError for
\* fewer than three populations, and no matrix is returned.
get_mean_PSP_matrix_raises(number_of_pop) == number_of_pop < 3

get_mean_PSP_matrix(PSP_e, g, number_of_pop) ==
    LET exc == PSP_e
        inh == RMul(PSP_e, g)
        weights == [i \in Range0(number_of_pop) |->
                       [j \in Range0(number_of_pop) |->
                           IF j % 2 = 0 THEN exc ELSE inh]]
    IN  IF get_mean_PSP_matrix_raises(number_of_pop)
        THEN Undefined
        ELSE [weights EXCEPT ![0][2] = RMul(exc, RInt(2))]

get_std_PSP_matrix(PSP_rel, number_of_pop) ==
    [i \in Range0(number_of_pop) |-> [j \in Range0(number_of_pop) |-> PSP_rel]]

(***************************************************************************)
(* helpers.py (not part of the sources at hand): modelled from the         *)
(* specification of ConnectivityMath and ScalingEngine.                    *)
(***************************************************************************)
\* round(log(1 - p) / log(1 - 1/(nPre*nPost))), tabulated for the
\* probabilities (in percent) and population-size products of the model.
SynapseCountTable(pct, prod) ==
    CASE pct = 0 -> 0
      [] pct = 10 /\ prod = 8 -> 1
      [] pct = 10 /\ prod = 14 -> 1
      [] pct = 10 /\ prod = 16 -> 2
      [] pct = 10 /\ prod = 20 -> 2
      [] pct = 10 /\ prod = 28 -> 3
      [] pct = 10 /\ prod = 40 -> 4
      [] pct = 10 /\ prod = 49 -> 5
      [] pct = 10 /\ prod = 70 -> 7
      [] pct = 10 /\ prod = 100 -> 10
      [] pct = 50 /\ prod = 8 -> 5
      [] pct = 50 /\ prod = 14 -> 9
      [] pct = 50 /\ prod = 16 -> 11
      [] pct = 50 /\ prod = 20 -> 14
      [] pct = 50 /\ prod = 28 -> 19
      [] pct = 50 /\ prod = 40 -> 27
      [] pct = 50 /\ prod = 49 -> 34
      [] pct = 50 /\ prod = 70 -> 48
      [] pct = 50 /\ prod = 100 -> 69

\* conn_probs[target][source], popsize1 the targets, popsize2 the sources
num_synapses_from_conn_probs(conn_probs, popsize1, popsize2) ==
    [i \in DOMAIN conn_probs |->
        [j \in DOMAIN conn_probs[i] |->
            SynapseCountTable(conn_probs[i][j], popsize1[i] * popsize2[j])]]

\* the thalamic call: one relay population of n_thal neurons, row [0]
num_synapses_from_conn_probs_th(conn_probs_th, n_thal, popsize2) ==
    [j \in DOMAIN conn_probs_th |->
        SynapseCountTable(conn_probs_th[j], n_thal * popsize2[j])]

\* PSC amplitude (pA) per mV of PSP amplitude for C_m = 250 pF,
\* tau_m = 10 ms, tau_syn = 0.5 ms (closed form of the membrane response)
PSC_over_PSP == 585

weight_as_current_from_potential(PSP_val) == RMul(PSP_val, RInt(PSC_over_PSP))

\* DC = K_ext * bg_rate * PSC_ext * tau_syn * 0.001
dc_input_compensating_poisson(bg_rate, K_ext, tau_syn, PSC_ext) ==
    [i \in DOMAIN K_ext |->
        RMul(RMul(RInt(K_ext[i] * bg_rate), PSC_ext), RMul(tau_syn, Rat(1, 1000)))]

\* Mean-preserving correction: with K_scaling times the full indegrees the
\* same correction ratio 1 / K_scaling is applied to the recurrent weights,
\* the external weight and the DC amplitude.
adjust_weights_and_input_to_synapse_scaling(K_scaling, mean_PSC_matrix, PSC_ext, DC_amp) ==
    [mean_PSC_matrix |->
        [i \in DOMAIN mean_PSC_matrix |->
            [j \in DOMAIN mean_PSC_matrix[i] |->
                RDivPos(mean_PSC_matrix[i][j], K_scaling)]],
     PSC_ext |-> RDivPos(PSC_ext, K_scaling),
     DC_amp |-> [i \in DOMAIN DC_amp |-> RDivPos(DC_amp[i], K_scaling)]]

\* np.sqrt on the scaling factors of the model (ratios of perfect squares)
ISqrt(k) == CHOOSE s \in 0 .. k : s * s = k
Sqrt(a) == Rat(ISqrt(a.n), ISqrt(a.d))

(***************************************************************************)
(* Inputs: the three parameter dictionaries handed to Network(...).        *)
(***************************************************************************)
PopCounts == 3 .. MaxPops
NFullExc == {10}
NFullInh == {4}
ConnProbs == {0, 10, 50}
NScalings == {Rat(1, 1), Rat(1, 2), Rat(1, 10), Rat(0, 1), Rat(0 - 1, 2)}
KScalings == {Rat(1, 1), Rat(1, 4), Rat(4, 9)}
RecDevs == {{}, {"spike_detector"}, {"spike_detector", "voltmeter"}}
None == <<>>
Some(x) == <<x>>
Get(opt) == opt[1]

NetDict(P, nExc, nInh, pDiag, pOff, N_scaling, K_scaling, poisson_input, rec_dev) ==
    [populations |-> [i \in Range0(P) |-> i],
     neuron_model |-> "iaf_psc_exp",
     rec_dev |-> rec_dev,
     N_full |-> [i \in Range0(P) |-> IF i % 2 = 0 THEN nExc ELSE nInh],
     conn_probs |-> [i \in Range0(P) |->
                        [j \in Range0(P) |-> IF i = j THEN pDiag ELSE pOff]],
     K_ext |-> [i \in Range0(P) |-> IF i % 2 = 0 THEN 3 ELSE 2],
     K_scaling |-> K_scaling,
     N_scaling |-> N_scaling,
     PSP_e |-> Rat(15, 100),
     PSP_sd |-> Rat(1, 10),
     g |-> RInt(0 - 4),
     bg_rate |-> 8,
     poisson_input |-> poisson_input,
     poisson_delay |-> Rat(3, 2),
     V0_type |-> "original",
     tau_syn |-> Rat(1, 2),
     PSP_mean_matrix |-> get_mean_PSP_matrix(Rat(15, 100), RInt(0 - 4), P),
     PSP_std_matrix |-> get_std_PSP_matrix(Rat(1, 10), P),
     mean_delay_matrix |-> get_mean_delays(Rat(3, 2), Rat(3, 4), P),
     std_delay_matrix |-> get_std_delays(Rat(3, 4), Rat(3, 8), P)]

StimDict(P, thalamic_input, dc_input) ==
    [thalamic_input |-> thalamic_input,
     dc_input |-> dc_input,
     n_thal |-> 2,
     conn_probs_th |-> [j \in Range0(P) |->
                           IF j < 2 THEN 0 ELSE IF j % 2 = 0 THEN 50 ELSE 10],
     PSP_th |-> Rat(15, 100),
     th_rate |-> 120,
     th_start |-> 700,
     th_duration |-> 10,
     delay_th |-> [j \in Range0(P) |-> Rat(3, 2)],
     delay_th_sd |-> [j \in Range0(P) |-> Rat(3, 4)],
     dc_amp |-> Rat(3, 10),
     dc_start |-> 650,
     dc_dur |-> 100]

SimDict(local_num_threads) ==
    [sim_resolution |-> Rat(1, 10),
     t_sim |-> 1000,
     master_seed |-> 55,
     local_num_threads |-> local_num_threads,
     overwrite_files |-> TRUE,
     print_time |-> FALSE]

\* stim_dict is optional: None, or a dictionary with its two switches
StimDicts(P) ==
    {None} \cup {Some(StimDict(P, th, dc)) : th \in BOOLEAN, dc \in BOOLEAN}

(***************************************************************************)
(* State: the caller's stage, the Network object's attributes, and the     *)
(* backend (kernel status, created nodes, connection requests).            *)
(***************************************************************************)
VARIABLES
    stage,               \* where the run stands
    error,               \* the exception that ended it, or "none"
    sim_dict, net_dict, stim_dict,
    num_pops, num_neurons, num_synapses, ext_indegrees,
    mean_weight_matrix, std_weight_matrix, weight_ext, DC_amp,
    nr_synapses_th, thalamic_weight,
    sim_resolution,
    pops, devices,
    connected,           \* connect() has returned
    kernel, nodes, connections, simulated,
    updated_dict,        \* the matrices network_params.py computes on import
    setups               \* how many times the kernel has been reset and set up

attrs == <<num_pops, num_neurons, num_synapses, ext_indegrees,
           mean_weight_matrix, std_weight_matrix, weight_ext, DC_amp,
           nr_synapses_th, thalamic_weight>>
dicts == <<sim_dict, net_dict, stim_dict>>
vars == <<stage, error, dicts, attrs, sim_resolution, pops, devices, connected,
          kernel, nodes, connections, simulated, updated_dict, setups>>

(***************************************************************************)
(* Network.__derive_parameters                                             *)
(***************************************************************************)
\* full_num_synapses (lines 172-175)
FullNumSynapses(nd) ==
    num_synapses_from_conn_probs(nd.conn_probs, nd.N_full, nd.N_full)

\* mutant: the neuron numbers scaled by K_scaling as well
ScaledNumNeurons_KScaled(nd) ==
    [i \in DOMAIN nd.N_full |->
        AsTypeInt(RMul(RMul(RInt(nd.N_full[i]), nd.N_scaling), nd.K_scaling))]

\* self.num_neurons (lines 178-179)
ScaledNumNeurons(nd) ==
    [i \in DOMAIN nd.N_full |-> AsTypeInt(RMul(RInt(nd.N_full[i]), nd.N_scaling))]

\* mutant: the synapse numbers scaled by N_scaling alone
ScaledNumSynapses_NScalingOnly(nd) ==
    LET full_num_synapses == FullNumSynapses(nd)
    IN  [i \in DOMAIN nd.N_full |->
            [j \in DOMAIN nd.N_full |->
                AsTypeInt(RMul(RInt(full_num_synapses[i][j]), nd.N_scaling))]]

\* self.num_synapses (lines 180-182)
ScaledNumSynapses(nd) ==
    LET full_num_synapses == FullNumSynapses(nd)
    IN  [i \in DOMAIN nd.N_full |->
            [j \in DOMAIN nd.N_full |->
                AsTypeInt(RMul(RMul(RInt(full_num_synapses[i][j]), nd.N_scaling),
                               nd.K_scaling))]]

\* self.ext_indegrees (lines 183-184)
ExtIndegrees(nd) ==
    [i \in DOMAIN nd.K_ext |-> AsTypeInt(RMul(RInt(nd.K_ext[i]), nd.K_scaling))]

\* conversion from PSP to PSC (lines 187-196)
MeanPSCMatrix(nd) ==
    [i \in DOMAIN nd.PSP_mean_matrix |->
        [j \in DOMAIN nd.PSP_mean_matrix[i] |->
            weight_as_current_from_potential(nd.PSP_mean_matrix[i][j])]]

PSCExt(nd) == weight_as_current_from_potential(nd.PSP_e)

\* mutant: the compensation computed whether or not Poisson input is on
CompensatingDCAmp_Always(nd) ==
    dc_input_compensating_poisson(nd.bg_rate, nd.K_ext, nd.tau_syn, PSCExt(nd))

\* DC input compensates for potentially missing Poisson input (lines 199-208)
CompensatingDCAmp(nd) ==
    IF nd.poisson_input
    THEN [i \in DOMAIN nd.populations |-> RZero]
    ELSE dc_input_compensating_poisson(nd.bg_rate, nd.K_ext, nd.tau_syn, PSCExt(nd))

\* mutant: the adjustment keyed on, and fed with, N_scaling
SynapseScalingAdjusted_WrongFactor(nd) ==
    IF nd.N_scaling.n # nd.N_scaling.d
    THEN adjust_weights_and_input_to_synapse_scaling(
             nd.N_scaling, MeanPSCMatrix(nd), PSCExt(nd), CompensatingDCAmp(nd))
    ELSE [mean_PSC_matrix |-> MeanPSCMatrix(nd),
          PSC_ext |-> PSCExt(nd),
          DC_amp |-> CompensatingDCAmp(nd)]

\* adjust weights and DC amplitude if the number of synapses is scaled
\* (lines 211-221)
SynapseScalingAdjusted(nd) ==
    IF nd.K_scaling.n # nd.K_scaling.d
    THEN adjust_weights_and_input_to_synapse_scaling(
             nd.K_scaling, MeanPSCMatrix(nd), PSCExt(nd), CompensatingDCAmp(nd))
    ELSE [mean_PSC_matrix |-> MeanPSCMatrix(nd),
          PSC_ext |-> PSCExt(nd),
          DC_amp |-> CompensatingDCAmp(nd)]

\* thalamic input (lines 231-243), evaluated when the switch is on
ThalamicFullSynapses(nd, sd) ==
    num_synapses_from_conn_probs_th(sd.conn_probs_th, sd.n_thal, nd.N_full)

\* mutant: the thalamic weight divided by K_scaling, not by its square root
ThalamicDerived_LinearWeight(nd, sd) ==
    LET full == ThalamicFullSynapses(nd, sd)
        w == weight_as_current_from_potential(sd.PSP_th)
        scaled == nd.K_scaling.n # nd.K_scaling.d
    IN  [nr_synapses_th |->
            [j \in DOMAIN full |->
                AsTypeInt(IF scaled THEN RMul(RInt(full[j]), nd.K_scaling)
                          ELSE RInt(full[j]))],
         thalamic_weight |->
            IF scaled THEN RDivPos(w, nd.K_scaling) ELSE w]

ThalamicDerived(nd, sd) ==
    LET full == ThalamicFullSynapses(nd, sd)
        w == weight_as_current_from_potential(sd.PSP_th)
        scaled == nd.K_scaling.n # nd.K_scaling.d
    IN  [nr_synapses_th |->
            [j \in DOMAIN full |->
                AsTypeInt(IF scaled THEN RMul(RInt(full[j]), nd.K_scaling)
                          ELSE RInt(full[j]))],
         thalamic_weight |->
            IF scaled THEN RDivPos(w, Sqrt(nd.K_scaling)) ELSE w]

\* self.stim_dict['thalamic_input'] (line 230) subscripts stim_dict whatever
\* it is: None is not subscriptable and the lookup raises TypeError.
DeriveRaises(st) == st = None

\* The attribute assignments of lines 169-227, which precede the lookup.
DeriveRecurrent(nd) ==
    LET adjusted == SynapseScalingAdjusted(nd)
    IN  /\ num_pops' = Cardinality(DOMAIN nd.populations)
        /\ num_neurons' = ScaledNumNeurons(nd)
        /\ num_synapses' = ScaledNumSynapses(nd)
        /\ ext_indegrees' = ExtIndegrees(nd)
        /\ mean_weight_matrix' = adjusted.mean_PSC_matrix
        /\ std_weight_matrix' = nd.PSP_std_matrix
        /\ weight_ext' = adjusted.PSC_ext
        /\ DC_amp' = adjusted.DC_amp

DeriveThalamic(nd, sd) ==
    IF sd.thalamic_input
    THEN LET th == ThalamicDerived(nd, sd)
         IN  /\ nr_synapses_th' = th.nr_synapses_th
             /\ thalamic_weight' = th.thalamic_weight
    ELSE UNCHANGED <<nr_synapses_th, thalamic_weight>>

(***************************************************************************)
(* Network.__setup_nest                                                    *)
(***************************************************************************)
\* total_num_virtual_procs: MPI processes x threads per process, one process
Ranks == {0}
TotalNumVirtualProcs(local_num_threads) == Cardinality(Ranks) * local_num_threads

\* mutant: the global seed offset by what the kernel held before the reset
GrngSeed_PlusNodeCount(master_seed, N_vp) == master_seed + N_vp + Len(nodes)

\* grng_seed (line 271)
GrngSeed(master_seed, N_vp) == master_seed + N_vp

\* mutant: the per-unit seeds start at the global seed
RngSeeds_NoGap(master_seed, N_vp) ==
    [k \in Range0(N_vp) |-> master_seed + N_vp + k]

\* rng_seeds (line 272): master_seed + N_vp + 1 + np.arange(N_vp)
RngSeeds(master_seed, N_vp) == [k \in Range0(N_vp) |-> master_seed + N_vp + 1 + k]

SetupNest(sim) ==
    LET N_vp == TotalNumVirtualProcs(sim.local_num_threads)
    IN  /\ sim_resolution' = sim.sim_resolution
        /\ kernel' = [local_num_threads |-> sim.local_num_threads,
                      total_num_virtual_procs |-> N_vp,
                      resolution |-> sim.sim_resolution,
                      grng_seed |-> GrngSeed(sim.master_seed, N_vp),
                      rng_seeds |-> RngSeeds(sim.master_seed, N_vp),
                      overwrite_files |-> sim.overwrite_files,
                      print_time |-> sim.print_time]
        \* nest.ResetKernel()
        /\ nodes' = <<>>
        /\ connections' = <<>>
        /\ simulated' = 0
        /\ setups' = setups + 1

(***************************************************************************)
(* Network.__init__                                                        *)
(***************************************************************************)
NoDevices ==
    [spike_detectors |-> None, voltmeters |-> None, poisson_bg_input |-> None,
     thalamic_population |-> None, poisson_th |-> None, dc_stim_input |-> None]

Network_init(sim, nd, st) ==
    /\ sim_dict' = sim
    /\ net_dict' = nd
    /\ stim_dict' = st
    /\ DeriveRecurrent(nd)
    /\ IF DeriveRaises(st)
       THEN /\ stage' = "Failed"
            /\ error' = "TypeError"
            \* the new object never gets these attributes; the kernel keeps
            \* what it held
            /\ nr_synapses_th' = Undefined
            /\ thalamic_weight' = Undefined
            /\ sim_resolution' = Undefined
            /\ UNCHANGED <<kernel, nodes, connections, simulated, setups>>
       ELSE /\ DeriveThalamic(nd, Get(st))
            /\ SetupNest(sim)
            /\ stage' = "Derived"
            /\ error' = "none"
    \* a new object has neither populations nor devices
    /\ pops' = <<>>
    /\ devices' = NoDevices
    /\ connected' = FALSE
    /\ UNCHANGED updated_dict

Construct ==
    /\ stage = "Unconfigured"
    /\ \E P \in PopCounts, nExc \in NFullExc, nInh \in NFullInh,
          pDiag \in ConnProbs, pOff \in ConnProbs,
          N_scaling \in NScalings, K_scaling \in KScalings,
          poisson_input \in BOOLEAN, rec_dev \in RecDevs,
          local_num_threads \in 1 .. MaxThreads :
           \E st \in StimDicts(P) :
               Network_init(SimDict(local_num_threads),
                            NetDict(P, nExc, nInh, pDiag, pOff, N_scaling, K_scaling,
                                    poisson_input, rec_dev),
                            st)

\* Network(...) over the master seeds and thread counts, on a fresh kernel
\* or on one an earlier Network has used; the network itself is kept small.
MasterSeeds == {55 + m : m \in Range0(MaxSeeds)}
SimDictSeeded(master_seed, local_num_threads) ==
    [SimDict(local_num_threads) EXCEPT !.master_seed = master_seed]

Network_seeded ==
    \E master_seed \in MasterSeeds, local_num_threads \in 1 .. MaxThreads,
       poisson_input \in BOOLEAN :
        Network_init(SimDictSeeded(master_seed, local_num_threads),
                     NetDict(MaxPops, 10, 4, 10, 0, ROne, ROne, poisson_input, {}),
                     Some(StimDict(MaxPops, FALSE, FALSE)))

ConstructSeeded ==
    /\ stage = "Unconfigured"
    /\ Network_seeded

\* a further Network(...) in the same process: __setup_nest resets the kernel
Reconstruct ==
    /\ stage # "Unconfigured"
    /\ setups < MaxSetups
    /\ Network_seeded

(***************************************************************************)
(* The backend.  nest.Create appends one node collection to nodes and      *)
(* returns its handle, the position of the collection in creation order.   *)
(* nest.Connect appends one request to connections.  An endpoint is a      *)
(* whole collection (elem = All) or its element elem.                      *)
(***************************************************************************)
All == 0 - 1
Node(model, n, params) == [model |-> model, n |-> n, params |-> params]
Whole(id) == [id |-> id, elem |-> All]
Elem(id, k) == [id |-> id, elem |-> k]
SeqOf(f, n) == [k \in 1 .. n |-> f[k - 1]]
Flatten(P) == [k \in 1 .. P * P |-> <<(k - 1) \div P, (k - 1) % P>>]

(***************************************************************************)
(* Network.create                                                          *)
(***************************************************************************)
\* __create_neuronal_populations (lines 305-337): one collection per entry
\* of net_dict['populations'], in that order, I_e set to DC_amp[i]
V0(nd, i) ==
    IF nd.V0_type = "optimized" THEN Some("optimized")
    ELSE IF nd.V0_type = "original" THEN Some("original")
    ELSE None

PopulationNode(nd, i) ==
    Node(nd.neuron_model, num_neurons[i],
         [tau_syn_ex |-> nd.tau_syn, tau_syn_in |-> nd.tau_syn,
          I_e |-> DC_amp[i], V_m |-> V0(nd, i)])

PopulationNodes(nd) ==
    SeqOf([i \in DOMAIN nd.populations |-> PopulationNode(nd, i)],
          Cardinality(DOMAIN nd.populations))

\* __create_recording_devices (lines 349-367)
RecordingNodes(nd) ==
    (IF "spike_detector" \in nd.rec_dev
     THEN <<Node("spike_detector", num_pops, [record_to |-> "ascii"])>>
     ELSE <<>>)
    \o
    (IF "voltmeter" \in nd.rec_dev
     THEN <<Node("voltmeter", num_pops, [record_to |-> "ascii"])>>
     ELSE <<>>)

\* __create_poisson_bg_input (lines 380-383)
PoissonBgRate(nd) == [i \in DOMAIN ext_indegrees |-> nd.bg_rate * ext_indegrees[i]]

PoissonBgNodes(nd) ==
    <<Node("poisson_generator", num_pops, [rate |-> PoissonBgRate(nd)])>>

\* __create_thalamic_stim_input (lines 399-406)
ThalamicNodes(sd) ==
    <<Node("parrot_neuron", sd.n_thal, [rate |-> None]),
      Node("poisson_generator", 1,
           [rate |-> sd.th_rate, start |-> sd.th_start,
            stop |-> sd.th_start + sd.th_duration])>>

\* __create_dc_stim_input (lines 414-424)
DCStimNodes(nd, sd) ==
    <<Node("dc_generator", num_pops,
           [amplitude |-> [i \in DOMAIN nd.K_ext |-> RMul(RInt(nd.K_ext[i]), sd.dc_amp)],
            start |-> sd.dc_start, stop |-> sd.dc_start + sd.dc_dur])>>

Create ==
    /\ stage = "Derived"
    /\ LET nd == net_dict
           sd == Get(stim_dict)
           P == Cardinality(DOMAIN nd.populations)
           n0 == Len(nodes)
           rec == IF Cardinality(nd.rec_dev) > 0 THEN RecordingNodes(nd) ELSE <<>>
           n1 == n0 + P
           poi == IF nd.poisson_input THEN PoissonBgNodes(nd) ELSE <<>>
           n2 == n1 + Len(rec)
           tha == IF sd.thalamic_input THEN ThalamicNodes(sd) ELSE <<>>
           n3 == n2 + Len(poi)
           dcs == IF sd.dc_input THEN DCStimNodes(nd, sd) ELSE <<>>
           n4 == n3 + Len(tha)
       IN  /\ pops' = [i \in DOMAIN nd.populations |-> n0 + i + 1]
           /\ nodes' = nodes \o PopulationNodes(nd) \o rec \o poi \o tha \o dcs
           /\ devices' =
                [spike_detectors |->
                    IF Cardinality(nd.rec_dev) > 0 /\ "spike_detector" \in nd.rec_dev
                    THEN Some(n1 + 1) ELSE devices.spike_detectors,
                 voltmeters |->
                    IF Cardinality(nd.rec_dev) > 0 /\ "voltmeter" \in nd.rec_dev
                    THEN Some(n1 + Len(rec)) ELSE devices.voltmeters,
                 poisson_bg_input |->
                    IF nd.poisson_input THEN Some(n2 + 1) ELSE devices.poisson_bg_input,
                 thalamic_population |->
                    IF sd.thalamic_input THEN Some(n3 + 1) ELSE devices.thalamic_population,
                 poisson_th |->
                    IF sd.thalamic_input THEN Some(n3 + 2) ELSE devices.poisson_th,
                 dc_stim_input |->
                    IF sd.dc_input THEN Some(n4 + 1) ELSE devices.dc_stim_input]
    /\ stage' = "PopulationsCreated"
    /\ UNCHANGED <<error, dicts, attrs, sim_resolution, connected, kernel,
                   connections, simulated, updated_dict, setups>>

(***************************************************************************)
(* Network.connect                                                         *)
(***************************************************************************)
\* the test that admits a pair (line 437)
IssuesRecurrentRequest(synapse_nr) == synapse_nr >= 0

\* mutant: the low bound set whatever the sign of the mean weight
WeightBounds_LowOnly(weight) == [low |-> Some(RZero), high |-> None]

\* the truncation of the weight distribution (lines 455-458)
WeightBounds(weight) ==
    IF weight.n < 0
    THEN [low |-> None, high |-> Some(RZero)]
    ELSE [low |-> Some(RZero), high |-> None]

\* mutant: the delay distribution left without its low bound
RecurrentDelay_Unclipped(nd, i, j) ==
    [distribution |-> "normal_clipped",
     mu |-> nd.mean_delay_matrix[i][j], sigma |-> nd.std_delay_matrix[i][j],
     low |-> None]

\* the delay distribution of a recurrent pair (lines 449-453)
RecurrentDelay(nd, i, j) ==
    [distribution |-> "normal_clipped",
     mu |-> nd.mean_delay_matrix[i][j], sigma |-> nd.std_delay_matrix[i][j],
     low |-> Some(sim_resolution)]

\* one nest.Connect of __connect_neuronal_populations (lines 436-463)
RecurrentRequest(nd, i, j) ==
    LET synapse_nr == num_synapses[i][j]
        weight == mean_weight_matrix[i][j]
        w_sd == RAbs(RMul(weight, std_weight_matrix[i][j]))
    IN  [kind |-> "recurrent",
         source |-> Whole(pops[j]), target |-> Whole(pops[i]),
         conn_spec |-> [rule |-> "fixed_total_number", N |-> synapse_nr],
         syn_spec |->
            [synapse_model |-> "static_synapse",
             weight |-> [distribution |-> "normal_clipped", mu |-> weight,
                         sigma |-> w_sd,
                         low |-> WeightBounds(weight).low,
                         high |-> WeightBounds(weight).high],
             delay |-> RecurrentDelay(nd, i, j)]]

\* the double loop over enumerate(self.pops), targets outermost
RecurrentRequests(nd) ==
    LET P == Cardinality(DOMAIN pops)
        pairs == SelectSeq(Flatten(P),
                           LAMBDA ij : IssuesRecurrentRequest(num_synapses[ij[1]][ij[2]]))
    IN  [k \in 1 .. Len(pairs) |-> RecurrentRequest(nd, pairs[k][1], pairs[k][2])]

DefaultRequest(kind, source, target) ==
    [kind |-> kind, source |-> source, target |-> target,
     conn_spec |-> [rule |-> "default"], syn_spec |-> None]

\* __connect_recording_devices (lines 472-476)
RecordingRequestsFor(nd, i) ==
    (IF "spike_detector" \in nd.rec_dev
     THEN <<DefaultRequest("recording", Whole(pops[i]),
                           Elem(Get(devices.spike_detectors), i))>>
     ELSE <<>>)
    \o
    (IF "voltmeter" \in nd.rec_dev
     THEN <<DefaultRequest("recording", Elem(Get(devices.voltmeters), i),
                           Whole(pops[i]))>>
     ELSE <<>>)

RECURSIVE RecordingRequestsFrom(_, _)
RecordingRequestsFrom(nd, i) ==
    IF i >= Cardinality(DOMAIN pops) THEN <<>>
    ELSE RecordingRequestsFor(nd, i) \o RecordingRequestsFrom(nd, i + 1)

RecordingRequests(nd) == RecordingRequestsFrom(nd, 0)

\* mutant: every generator connected to the first population
PoissonBgRequest_FirstPop(nd, i) ==
    [kind |-> "poisson_bg",
     source |-> Elem(Get(devices.poisson_bg_input), i), target |-> Whole(pops[0]),
     conn_spec |-> [rule |-> "all_to_all"],
     syn_spec |-> [synapse_model |-> "static_synapse",
                   weight |-> weight_ext, delay |-> nd.poisson_delay]]

\* __connect_poisson_bg_input (lines 484-495)
PoissonBgRequest(nd, i) ==
    [kind |-> "poisson_bg",
     source |-> Elem(Get(devices.poisson_bg_input), i), target |-> Whole(pops[i]),
     conn_spec |-> [rule |-> "all_to_all"],
     syn_spec |-> [synapse_model |-> "static_synapse",
                   weight |-> weight_ext, delay |-> nd.poisson_delay]]

PoissonBgRequests(nd) ==
    [k \in 1 .. Cardinality(DOMAIN pops) |-> PoissonBgRequest(nd, k - 1)]

\* __connect_thalamic_stim_input (lines 505-532)
ThalamicRequest(nd, sd, i) ==
    [kind |-> "thalamic",
     source |-> Whole(Get(devices.thalamic_population)), target |-> Whole(pops[i]),
     conn_spec |-> [rule |-> "fixed_total_number", N |-> nr_synapses_th[i]],
     syn_spec |->
        [weight |-> [distribution |-> "normal_clipped", mu |-> thalamic_weight,
                     sigma |-> RMul(thalamic_weight, nd.PSP_sd),
                     low |-> Some(RZero), high |-> None],
         delay |-> [distribution |-> "normal_clipped",
                    mu |-> sd.delay_th[i], sigma |-> sd.delay_th_sd[i],
                    low |-> Some(sim_resolution)]]]

ThalamicRequests(nd, sd) ==
    <<DefaultRequest("poisson_th", Whole(Get(devices.poisson_th)),
                     Whole(Get(devices.thalamic_population)))>>
    \o [k \in 1 .. Cardinality(DOMAIN pops) |-> ThalamicRequest(nd, sd, k - 1)]

\* __connect_dc_stim_input (lines 538-543)
DCStimRequests(sd) ==
    IF sd.dc_input
    THEN [k \in 1 .. Cardinality(DOMAIN pops) |->
             DefaultRequest("dc", Elem(Get(devices.dc_stim_input), k - 1),
                            Whole(pops[k - 1]))]
    ELSE <<>>

\* the requests connect() issues, in the order of lines 106-115
ConnectRequests(nd, sd) ==
    RecurrentRequests(nd)
    \o (IF Cardinality(nd.rec_dev) > 0 THEN RecordingRequests(nd) ELSE <<>>)
    \o (IF nd.poisson_input THEN PoissonBgRequests(nd) ELSE <<>>)
    \o (IF sd.thalamic_input THEN ThalamicRequests(nd, sd) ELSE <<>>)
    \o (IF sd.dc_input THEN DCStimRequests(sd) ELSE <<>>)

Connect ==
    /\ stage = "PopulationsCreated"
    /\ connections' = connections \o ConnectRequests(net_dict, Get(stim_dict))
    /\ stage' = "Connected"
    /\ connected' = TRUE
    /\ UNCHANGED <<error, dicts, attrs, sim_resolution, pops, devices, kernel,
                   nodes, simulated, updated_dict, setups>>

\* The backend raises on the k-th recurrent nest.Connect of connect().  The
\* loop of lines 434-463 has no try/except and connect() none either: the
\* exception leaves connect() with the k - 1 requests before it in the kernel.
ConnectRejected ==
    /\ stage = "PopulationsCreated"
    /\ \E k \in 1 .. Len(RecurrentRequests(net_dict)) :
           connections' = connections \o SubSeq(RecurrentRequests(net_dict), 1, k - 1)
    /\ stage' = "ConnectFailed"
    /\ error' = "NESTError"
    /\ UNCHANGED <<dicts, attrs, sim_resolution, pops, devices, connected, kernel,
                   nodes, simulated, updated_dict, setups>>

\* connect() on an object whose create() has not run: self.pops does not
\* exist, and line 434 raises before the first nest.Connect.
ConnectBeforeCreate ==
    /\ stage = "Derived"
    /\ stage' = "Failed"
    /\ error' = "AttributeError"
    /\ UNCHANGED <<dicts, attrs, sim_resolution, pops, devices, connected, kernel,
                   nodes, connections, simulated, updated_dict, setups>>

(***************************************************************************)
(* Network.simulate                                                        *)
(***************************************************************************)
\* nest.Simulate(self.sim_dict['t_sim']) (line 120)
nest_Simulate ==
    /\ simulated' = simulated + sim_dict.t_sim
    /\ stage' = "Simulated"
    /\ UNCHANGED <<error, dicts, attrs, sim_resolution, pops, devices, connected,
                   kernel, nodes, connections, updated_dict, setups>>

Simulate ==
    /\ stage = "Connected"
    /\ nest_Simulate

\* simulate() called at another stage of a constructed object: the method
\* reads nothing but sim_dict, so it runs the backend all the same.
SimulateOutOfOrder ==
    /\ stage \in {"Derived", "PopulationsCreated", "ConnectFailed"}
    /\ nest_Simulate

Init ==
    /\ stage = "Unconfigured"
    /\ error = "none"
    /\ sim_dict = None /\ net_dict = None /\ stim_dict = None
    /\ num_pops = 0
    /\ num_neurons = Undefined /\ num_synapses = Undefined
    /\ ext_indegrees = Undefined
    /\ mean_weight_matrix = Undefined /\ std_weight_matrix = Undefined
    /\ weight_ext = Undefined /\ DC_amp = Undefined
    /\ nr_synapses_th = Undefined /\ thalamic_weight = Undefined
    /\ sim_resolution = Undefined
    /\ pops = <<>>
    /\ devices = NoDevices
    /\ kernel = Undefined
    /\ nodes = <<>>
    /\ connections = <<>>
    /\ simulated = 0
    /\ connected = FALSE
    /\ updated_dict = None
    /\ setups = 0

Next ==
    \/ Construct
    \/ Create
    \/ Connect
    \/ Simulate

Spec == Init /\ [][Next]_vars

\* The same object under a caller that calls the public methods in any
\* order, on a backend that may reject a connection request.
NextCalls ==
    \/ Next
    \/ ConnectRejected
    \/ ConnectBeforeCreate
    \/ SimulateOutOfOrder

SpecCalls == Init /\ [][NextCalls]_vars

(***************************************************************************)
(* network_params.py, executed on import: the literal net_dict, then the   *)
(* matrices of updated_dict computed from it (lines 142-255).              *)
(***************************************************************************)
PSPValues == {Rat(5, 100), Rat(15, 100), Rat(1, 2), Rat(1, 1), Rat(3, 1)}
GValues == {Rat(0 - 1, 2), RInt(0 - 1), RInt(0 - 2), RInt(0 - 4), RInt(0 - 8)}

LoadNetworkParams ==
    /\ stage = "Unconfigured" /\ net_dict = None
    /\ \E PSP_e \in PSPValues, g \in GValues, P \in 1 .. MaxDim :
           /\ net_dict' = [populations |-> [i \in Range0(P) |-> i],
                           PSP_e |-> PSP_e, g |-> g, PSP_sd |-> Rat(1, 10)]
           /\ IF get_mean_PSP_matrix_raises(P)
              THEN /\ stage' = "Failed"
                   /\ error' = "IndexError"
                   /\ UNCHANGED updated_dict
              ELSE /\ updated_dict' =
                          Some([PSP_mean_matrix |-> get_mean_PSP_matrix(PSP_e, g, P),
                                PSP_std_matrix |-> get_std_PSP_matrix(Rat(1, 10), P)])
                   /\ UNCHANGED <<stage, error>>
    /\ UNCHANGED <<sim_dict, stim_dict, attrs, sim_resolution, pops, devices,
                   connected, kernel, nodes, connections, simulated, setups>>

NextParams == LoadNetworkParams

SpecParams == Init /\ [][NextParams]_vars

\* Kernel setup over the master seeds and thread counts, repeated.
NextSeeds ==
    \/ ConstructSeeded
    \/ Reconstruct
    \/ Create
    \/ Connect
    \/ Simulate

SpecSeeds == Init /\ [][NextSeeds]_vars

(***************************************************************************)
(* Properties.                                                             *)
(***************************************************************************)
Constructed == stage # "Unconfigured"
Created == DOMAIN pops # {}
ConnectDone == connected
Pops == DOMAIN net_dict.populations

\* a scaling factor of the documented range (0, 1]
InRange(x) == RLess(RZero, x) /\ ~RLess(ROne, x)
ValidScaling == InRange(net_dict.N_scaling) /\ InRange(net_dict.K_scaling)
IsInteger(x) == x.n % x.d = 0

\* the mathematical floor of a rational with positive denominator
Floor(a) == a.n \div a.d

RequestsOfKind(kind) == {k \in DOMAIN connections : connections[k].kind = kind}
RecurrentOf(i, j) ==
    {k \in RequestsOfKind("recurrent") :
        /\ connections[k].source = Whole(pops[j])
        /\ connections[k].target = Whole(pops[i])}
NodesOfModel(model) == {k \in DOMAIN nodes : nodes[k].model = model}

\* C1: once connect() has run on a valid configuration, a pair (target i,
\* source j) has a recurrent request if and only if num_synapses[i][j] is
\* positive, and then exactly one, with rule fixed_total_number and
\* N = num_synapses[i][j]; a pair with count 0 has none.
C1_RequestIffPositiveCount ==
    (ConnectDone /\ ValidScaling) =>
        \A i \in Pops, j \in Pops :
            IF num_synapses[i][j] > 0
            THEN /\ Cardinality(RecurrentOf(i, j)) = 1
                 /\ \A k \in RecurrentOf(i, j) :
                       connections[k].conn_spec =
                           [rule |-> "fixed_total_number", N |-> num_synapses[i][j]]
            ELSE RecurrentOf(i, j) = {}

\* fullSynapses[i][j] * N_scaling * K_scaling, exactly
ScaledSynapseProduct(i, j) ==
    RMul(RInt(FullNumSynapses(net_dict)[i][j]),
         RMul(net_dict.N_scaling, net_dict.K_scaling))

\* C2: for valid scaling factors, num_synapses[i][j] is the floor of
\* fullSynapses[i][j] * N_scaling * K_scaling, is never negative, and is 0
\* whenever the full count is 0.
C2_SynapseCountIsFloor ==
    (Constructed /\ ValidScaling) =>
        \A i \in Pops, j \in Pops :
            /\ num_synapses[i][j] = Floor(ScaledSynapseProduct(i, j))
            /\ num_synapses[i][j] >= 0
            /\ (FullNumSynapses(net_dict)[i][j] = 0 => num_synapses[i][j] = 0)

C2_Witness ==
    /\ Constructed /\ ValidScaling
    /\ net_dict.K_scaling # ROne
    /\ \E i \in Pops, j \in Pops :
          /\ ~IsInteger(ScaledSynapseProduct(i, j))
          /\ num_synapses[i][j] > 0
    /\ \E i \in Pops, j \in Pops : FullNumSynapses(net_dict)[i][j] = 0

\* C3: for valid scaling factors, num_neurons[i] is the floor of
\* N_full[i] * N_scaling and at least 0, and after create() pops[i] is the
\* i-th collection created, a population of num_neurons[i] neurons of the
\* neuron model.
C3_PopulationSizes ==
    (Constructed /\ ValidScaling) =>
        /\ \A i \in Pops :
              /\ num_neurons[i] = Floor(RMul(RInt(net_dict.N_full[i]), net_dict.N_scaling))
              /\ num_neurons[i] >= 0
        /\ Created =>
              /\ DOMAIN pops = Pops
              /\ \A i \in Pops :
                    /\ pops[i] = i + 1
                    /\ nodes[pops[i]].model = net_dict.neuron_model
                    /\ nodes[pops[i]].n = num_neurons[i]

C3_Witness ==
    /\ Created /\ ValidScaling
    /\ net_dict.K_scaling # ROne
    /\ \E i \in Pops :
          /\ ~IsInteger(RMul(RInt(net_dict.N_full[i]), net_dict.N_scaling))
          /\ nodes[pops[i]].n = 0
    /\ \E i \in Pops : nodes[pops[i]].n > 0 /\ nodes[pops[i]].n < net_dict.N_full[i]

\* C4: every recurrent request carries the mean weight of its pair; a
\* positive mean has only the low bound, set to 0, a negative mean only the
\* high bound, set to 0; the standard deviation is never negative.
C4_WeightBoundsKeepSign ==
    \A i \in DOMAIN pops, j \in DOMAIN pops :
        \A k \in RecurrentOf(i, j) :
            LET w == connections[k].syn_spec.weight
            IN  /\ w.mu = mean_weight_matrix[i][j]
                /\ (w.mu.n > 0 => w.low = Some(RZero) /\ w.high = None)
                /\ (w.mu.n < 0 => w.high = Some(RZero) /\ w.low = None)
                /\ w.sigma.n >= 0 /\ w.sigma.d > 0

C4_Witness ==
    /\ ConnectDone
    /\ \E k \in RequestsOfKind("recurrent") :
          /\ connections[k].syn_spec.weight.mu.n < 0
          /\ connections[k].conn_spec.N > 0
    /\ \E k \in RequestsOfKind("recurrent") :
          /\ connections[k].syn_spec.weight.mu.n > 0
          /\ connections[k].conn_spec.N > 0

\* C5: every recurrent and every thalamic request has its delay distribution
\* truncated below at sim_resolution, the resolution handed to the kernel.
C5_DelayFloorIsResolution ==
    \A k \in RequestsOfKind("recurrent") \cup RequestsOfKind("thalamic") :
        /\ connections[k].syn_spec.delay.low = Some(sim_resolution)
        /\ sim_resolution = sim_dict.sim_resolution
        /\ kernel.resolution = sim_resolution

C5_Witness ==
    /\ ConnectDone
    /\ RequestsOfKind("recurrent") # {}
    /\ RequestsOfKind("thalamic") # {}

\* C6: with Poisson input on, create() makes one poisson_generator collection
\* of one device per population, device i with rate
\* bg_rate * floor(K_ext[i] * K_scaling), and connect() issues for each i
\* exactly one request from device i, to population i, all_to_all with
\* weight weight_ext and delay poisson_delay; with Poisson input off no
\* background generator exists and none is connected.
C6_PoissonBackground ==
    Created =>
        IF net_dict.poisson_input
        THEN /\ devices.poisson_bg_input # None
             /\ LET gen == nodes[Get(devices.poisson_bg_input)]
                IN  /\ gen.model = "poisson_generator"
                    /\ gen.n = Cardinality(Pops)
                    /\ \A i \in Pops :
                          gen.params.rate[i] =
                              net_dict.bg_rate
                              * Floor(RMul(RInt(net_dict.K_ext[i]), net_dict.K_scaling))
             /\ Cardinality(NodesOfModel("poisson_generator")) =
                    1 + (IF Get(stim_dict).thalamic_input THEN 1 ELSE 0)
             /\ ConnectDone =>
                   /\ Cardinality(RequestsOfKind("poisson_bg")) = Cardinality(Pops)
                   /\ \A i \in Pops :
                         \E k \in RequestsOfKind("poisson_bg") :
                             /\ connections[k].source = Elem(Get(devices.poisson_bg_input), i)
                             /\ connections[k].target = Whole(pops[i])
                             /\ connections[k].conn_spec = [rule |-> "all_to_all"]
                             /\ connections[k].syn_spec.weight = weight_ext
                             /\ connections[k].syn_spec.delay = net_dict.poisson_delay
        ELSE /\ devices.poisson_bg_input = None
             /\ Cardinality(NodesOfModel("poisson_generator")) =
                    (IF Get(stim_dict).thalamic_input THEN 1 ELSE 0)
             /\ RequestsOfKind("poisson_bg") = {}

C6_Witness ==
    /\ ConnectDone /\ ValidScaling
    /\ net_dict.poisson_input
    /\ Get(stim_dict).thalamic_input
    /\ \E i \in Pops :
          /\ ~IsInteger(RMul(RInt(net_dict.K_ext[i]), net_dict.K_scaling))
          /\ nodes[Get(devices.poisson_bg_input)].params.rate[i] > 0
    /\ Cardinality(RequestsOfKind("poisson_bg")) > 1

C8_NoOpAtFullIndegree ==
    (Constructed /\ net_dict.K_scaling = ROne) =>
        /\ mean_weight_matrix = MeanPSCMatrix(net_dict)
        /\ weight_ext = PSCExt(net_dict)
        /\ DC_amp = CompensatingDCAmp(net_dict)
        /\ (stim_dict # None /\ Get(stim_dict).thalamic_input) =>
              /\ nr_synapses_th = ThalamicFullSynapses(net_dict, Get(stim_dict))
              /\ thalamic_weight = weight_as_current_from_potential(Get(stim_dict).PSP_th)

C8_Witness ==
    /\ stage = "Derived"
    /\ net_dict.K_scaling = ROne
    /\ net_dict.N_scaling # ROne
    /\ ~net_dict.poisson_input
    /\ Get(stim_dict).thalamic_input
    /\ \E i \in Pops : DC_amp[i].n > 0
    /\ \E j \in Pops : nr_synapses_th[j] > 0

\* C9: a Network constructed from a valid configuration without a stimulus
\* dictionary is constructed without error.
C9_StimDictOptional ==
    (Constructed /\ ValidScaling /\ stim_dict = None) =>
        (stage # "Failed" /\ error = "none")

\* C10: no population is created in the backend from a configuration whose
\* scaling factors are not positive.
C10_InvalidScalingCreatesNothing ==
    (Constructed /\ ~RLess(RZero, net_dict.N_scaling)) => nodes = <<>>

\* C11: if the backend rejects a connection request for a population pair
\* during connect(), the build is aborted: none of the requests issued
\* earlier in that connect() remains in the kernel, and the network is not
\* simulated afterwards.
C11_RejectedConnectLeavesNothing ==
    (error = "NESTError") => (connections = <<>> /\ simulated = 0)

\* the nodes a request names exist in the kernel
EndpointsCreated(c) ==
    c.source.id \in DOMAIN nodes /\ c.target.id \in DOMAIN nodes

\* the device a request of this kind wires was created under the same flag
DeviceCreatedFor(c) ==
    /\ c.kind = "poisson_bg" =>
           (net_dict.poisson_input /\ devices.poisson_bg_input # None)
    /\ c.kind \in {"poisson_th", "thalamic"} =>
           /\ Get(stim_dict).thalamic_input
           /\ devices.poisson_th # None /\ devices.thalamic_population # None
    /\ c.kind = "dc" =>
           (Get(stim_dict).dc_input /\ devices.dc_stim_input # None)
    /\ c.kind = "recording" =>
           \/ /\ "spike_detector" \in net_dict.rec_dev
              /\ devices.spike_detectors # None
              /\ c.target.id = Get(devices.spike_detectors)
           \/ /\ "voltmeter" \in net_dict.rec_dev
              /\ devices.voltmeters # None
              /\ c.source.id = Get(devices.voltmeters)

\* C15: a run passes through Unconfigured, Derived, PopulationsCreated,
\* Connected, Simulated in that order only: the kernel is configured only
\* after the parameters are derived, connect() issues no request unless
\* create() has completed, every device connect() wires was created by the
\* preceding create() under the same flags, and simulate() does not run the
\* backend before connect() has completed.
C15_StagesInOrder ==
    /\ DOMAIN kernel # {} => DOMAIN num_neurons # {}
    /\ connections # <<>> => Created
    /\ \A k \in DOMAIN connections :
           EndpointsCreated(connections[k]) /\ DeviceCreatedFor(connections[k])
    /\ simulated > 0 => connected

\* the kernel holds the seeds of a setup of the current sim_dict
SeedsSet == stage \notin {"Unconfigured", "Failed"}
N_vp == kernel.total_num_virtual_procs

\* C12: kernel setup is deterministic in (master_seed, N_vp): a setup hands
\* the kernel exactly N_vp per-unit seeds, and a setup with the same
\* master_seed and the same N_vp as the setup before it produces the same
\* global seed and the same list of per-unit seeds, whatever else the kernel
\* and the network held.
C12_SeedsDeterministic ==
    [][(stage' = "Derived") =>
          /\ Cardinality(DOMAIN kernel'.rng_seeds) = kernel'.total_num_virtual_procs
          /\ (/\ SeedsSet
              /\ sim_dict'.master_seed = sim_dict.master_seed
              /\ kernel'.total_num_virtual_procs = kernel.total_num_virtual_procs)
                 => /\ kernel'.grng_seed = kernel.grng_seed
                    /\ kernel'.rng_seeds = kernel.rng_seeds]_vars

\* a second setup, with two virtual processes, of a kernel that is empty again
C12_Witness ==
    /\ setups = 2 /\ stage = "Derived"
    /\ N_vp = 2 /\ Cardinality(DOMAIN kernel.rng_seeds) = 2
    /\ nodes = <<>>

\* C16: the seeds handed to the kernel are pairwise distinct: the N_vp
\* per-unit seeds are master_seed + N_vp + 1 + k for k = 0 .. N_vp - 1, all
\* different from each other, and the global seed master_seed + N_vp is
\* different from every one of them.
C16_SeedsDistinct ==
    SeedsSet =>
        /\ kernel.grng_seed = sim_dict.master_seed + N_vp
        /\ DOMAIN kernel.rng_seeds = 0 .. N_vp - 1
        /\ \A k \in DOMAIN kernel.rng_seeds :
               /\ kernel.rng_seeds[k] = sim_dict.master_seed + N_vp + 1 + k
               /\ kernel.rng_seeds[k] # kernel.grng_seed
               /\ \A l \in DOMAIN kernel.rng_seeds :
                      k # l => kernel.rng_seeds[k] # kernel.rng_seeds[l]

C16_Witness ==
    /\ SeedsSet /\ N_vp >= 2
    /\ sim_dict.master_seed > 55

\* the positive rational whose square is K (the scaling factors are ratios
\* of squares)
RootOf(K) ==
    CHOOSE r \in {Rat(a, b) : a \in 1 .. 4, b \in 1 .. 4} :
        r.n * r.n * K.d = K.n * r.d * r.d

ThalamicOn == Get(stim_dict).thalamic_input
KScaled == net_dict.K_scaling.n # net_dict.K_scaling.d
ThalamicTo(i) ==
    {k \in RequestsOfKind("thalamic") : connections[k].target = Whole(pops[i])}

\* fullThalamicSynapses[i] * K_scaling, exactly
ScaledThalamicProduct(i) ==
    RMul(RInt(ThalamicFullSynapses(net_dict, Get(stim_dict))[i]), net_dict.K_scaling)

\* C13: with thalamic stimulation enabled and K_scaling != 1,
\* nr_synapses_th[i] is the floor of fullThalamicSynapses[i] * K_scaling and
\* thalamic_weight is the unit-converted PSP_th divided by sqrt(K_scaling);
\* connect() issues one request per target population from the thalamic
\* population, with rule fixed_total_number, N = nr_synapses_th[i] and a
\* weight distribution around thalamic_weight whose low bound is 0.  With
\* thalamic stimulation disabled no thalamic population or generator is
\* created and no thalamic request is issued.
C13_ThalamicScaling ==
    SeedsSet =>
        IF ThalamicOn
        THEN /\ KScaled =>
                  /\ \A i \in Pops :
                         nr_synapses_th[i] = Floor(ScaledThalamicProduct(i))
                  /\ LET w == weight_as_current_from_potential(Get(stim_dict).PSP_th)
                         r == RootOf(net_dict.K_scaling)
                     IN  thalamic_weight.n * r.n * w.d = w.n * thalamic_weight.d * r.d
             /\ ConnectDone =>
                  \A i \in Pops :
                      /\ Cardinality(ThalamicTo(i)) = 1
                      /\ \A k \in ThalamicTo(i) :
                             /\ connections[k].source =
                                    Whole(Get(devices.thalamic_population))
                             /\ connections[k].conn_spec =
                                    [rule |-> "fixed_total_number",
                                     N |-> nr_synapses_th[i]]
                             /\ connections[k].syn_spec.weight.mu = thalamic_weight
                             /\ connections[k].syn_spec.weight.low = Some(RZero)
        ELSE /\ NodesOfModel("parrot_neuron") = {}
             /\ Cardinality(NodesOfModel("poisson_generator")) =
                    (IF Created /\ net_dict.poisson_input THEN 1 ELSE 0)
             /\ devices.thalamic_population = None /\ devices.poisson_th = None
             /\ RequestsOfKind("thalamic") = {} /\ RequestsOfKind("poisson_th") = {}

C13_Witness ==
    /\ ConnectDone /\ ThalamicOn /\ KScaled
    /\ \E i \in Pops :
           /\ nr_synapses_th[i] > 0
           /\ ~IsInteger(ScaledThalamicProduct(i))
    /\ \E i \in Pops : nr_synapses_th[i] = 0

RSame(a, b) == a.n * b.d = b.n * a.d
ParamsLoaded == DOMAIN net_dict # {}

\* C14: for every population count P >= 1, get_mean_PSP_matrix(PSP_e, g, P)
\* returns a P x P matrix whose even source columns hold PSP_e and whose
\* odd source columns hold PSP_e * g in every target row, except that the
\* cell (target 0, source 2) holds 2 * PSP_e; with PSP_e > 0 and g < 0 every
\* cell of an even column is positive and every cell of an odd column
\* negative.
C14_MeanPSPMatrix ==
    ParamsLoaded =>
        LET P == Cardinality(DOMAIN net_dict.populations)
            e == net_dict.PSP_e
            g == net_dict.g
        IN  /\ error = "none"
            /\ updated_dict # None
            /\ LET M == Get(updated_dict).PSP_mean_matrix
               IN  /\ DOMAIN M = 0 .. P - 1
                   /\ \A i \in 0 .. P - 1 :
                          /\ DOMAIN M[i] = 0 .. P - 1
                          /\ \A j \in 0 .. P - 1 :
                                 /\ RSame(M[i][j],
                                          IF i = 0 /\ j = 2 THEN RMul(e, RInt(2))
                                          ELSE IF j % 2 = 0 THEN e
                                          ELSE RMul(e, g))
                                 /\ (RLess(RZero, e) /\ RLess(g, RZero)) =>
                                        IF j % 2 = 0 THEN RLess(RZero, M[i][j])
                                        ELSE RLess(M[i][j], RZero)

====
